---- MODULE Spec2Model ----
(***************************************************************************)
(* Model of gflownet/envs/crystals/lattice_parameters.py: the projected    *)
(* lattice-parameter environment LatticeParametersSGCCG, its constraint    *)
(* table, the two constraint applications, the affine state <-> projection *)
(* maps and the step that re-projects the state.                           *)
(*                                                                         *)
(* Arithmetic is exact.  A number is (n + l*L)/d with L = ln(3)/4, the     *)
(* only irrational constant of the constraint table; n, l, d are integers, *)
(* d > 0, gcd(n, l, d) = 1, so two numbers are equal iff their records     *)
(* are.  Python lists are sequences; Python's 0-based list[i] is At(_, i). *)
(* Python's None is the empty tuple, a set value v is the 1-tuple <<v>>.   *)
(***************************************************************************)
EXTENDS Integers, Sequences, FiniteSets, TLC

VARIABLES
    lattice_system,               \* self.lattice_system
    ignored_dims,                 \* self.ignored_dims
    projection_tied_values,       \* self.projection_tied_values
    projection_fixed_values,      \* self.projection_fixed_values
    lattice_params_tied_values,   \* self.lattice_params_tied_values
    lattice_params_fixed_values,  \* self.lattice_params_fixed_values
    attributes,                   \* LatticeParameters: a_idx .. gamma_idx,
                                  \* alpha .. gamma, alpha_state .. gamma_state
    state,                        \* self.state
    n_actions,                    \* self.n_actions: the accepted steps so far
    committed,                    \* history: an accepted step since the last
                                  \* set_lattice_system
    call                          \* the last call: its name, argument and outcome

vars == <<lattice_system, ignored_dims, projection_tied_values,
          projection_fixed_values, lattice_params_tied_values,
          lattice_params_fixed_values, attributes, state, n_actions,
          committed, call>>

table == <<ignored_dims, projection_tied_values, projection_fixed_values,
           lattice_params_tied_values, lattice_params_fixed_values>>

----------------------------------------------------------------------------
(* Bounds of the model *)

\* state-space inputs of the pure functions are drawn from
\* { (3k - 2)/2 : k \in 0..MaxArg }: below 0, inside [0, 1], above 1
MaxArg == 2
\* a trajectory has at most MaxSteps accepted steps
MaxSteps == 2
\* a batch of states2proxy has at most MaxBatch states
MaxBatch == 2
\* start and stop of batch_with_rest are drawn from 0..MaxStop, step from
\* -1..MaxStop
MaxStop == 4

----------------------------------------------------------------------------
(* Exact arithmetic *)

Abs(x) == IF x < 0 THEN -x ELSE x

RECURSIVE GCD(_, _)
GCD(a, b) == IF b = 0 THEN a ELSE GCD(b, a % b)

\* the number (n + l*L)/d in lowest terms with a positive denominator
Norm(n, l, d) ==
    LET sn == IF d < 0 THEN -n ELSE n
        sl == IF d < 0 THEN -l ELSE l
        sd == Abs(d)
        g  == GCD(GCD(Abs(sn), Abs(sl)), sd)
    IN  [n |-> sn \div g, l |-> sl \div g, d |-> sd \div g]

Rat(a, b) == Norm(a, 0, b)
Num(a) == Rat(a, 1)

\* x + y
Add(x, y) == Norm(x.n * y.d + y.n * x.d, x.l * y.d + y.l * x.d, x.d * y.d)
\* x - y
Sub(x, y) == Norm(x.n * y.d - y.n * x.d, x.l * y.d - y.l * x.d, x.d * y.d)
\* x * y, one factor rational (every product of the code has a rational
\* factor: a range max - min of projection bounds)
Mul(x, y) == Norm(x.n * y.n, x.n * y.l + x.l * y.n, x.d * y.d)
\* x / y, y rational and not 0 (every divisor of the code is a range)
Div(x, y) == Norm(x.n * y.d, x.l * y.d, x.d * y.n)

\* n + l*L < 0.  0.27465 < L < 0.27466 and L is irrational: with l # 0 the
\* number is never 0, and it is negative iff it is with L replaced by the
\* bound of L that makes it larger
Negative(n, l) ==
    IF l = 0 THEN n < 0
    ELSE n * 100000 + l * (IF l > 0 THEN 27466 ELSE 27465) < 0
\* x < y: the sign of the numerator of x - y
Lt(x, y) == Negative(x.n * y.d - y.n * x.d, x.l * y.d - y.l * x.d)

None == << >>
Some(v) == << v >>
IsNone(o) == o = << >>
\* Python's list[i]
At(list, i) == list[i + 1]

----------------------------------------------------------------------------
(* Constants of the module *)

TRICLINIC == "triclinic"
MONOCLINIC == "monoclinic"
ORTHORHOMBIC == "orthorhombic"
TETRAGONAL == "tetragonal"
HEXAGONAL == "hexagonal"
RHOMBOHEDRAL == "rhombohedral"
CUBIC == "cubic"
LATTICE_SYSTEMS == {TRICLINIC, MONOCLINIC, ORTHORHOMBIC, TETRAGONAL,
                    HEXAGONAL, RHOMBOHEDRAL, CUBIC}

\* -numpy.log(3) / 4
NegLog3Over4 == Norm(0, -1, 1)

min_projection_values ==
    << Rat(-3, 2), Rat(-3, 2), Rat(-3, 2), Rat(-9, 2), Num(-3), Rat(-3, 2) >>
max_projection_values ==
    << Rat(3, 2), Rat(3, 2), Rat(3, 2), Rat(9, 2), Num(3), Num(7) >>

Zero == Num(0)
One == Num(1)

\* ContinuousCube: the source state, the state after construction and reset
source == << Zero, Zero, Zero, Zero, Zero, Zero >>

----------------------------------------------------------------------------
(* The constraint table *)

\* the attributes _setup_constraints sets, system by system
TriclinicConstraints ==
    [ignored_dims |-> << FALSE, FALSE, FALSE, FALSE, FALSE, FALSE >>,
     projection_tied_values |-> << None, None, None, None, None, None >>,
     projection_fixed_values |-> << None, None, None, None, None, None >>,
     lattice_params_tied_values |-> << None, None, None, None, None, None >>,
     lattice_params_fixed_values |-> << None, None, None, None, None, None >>]

MonoclinicConstraints ==
    [ignored_dims |-> << TRUE, FALSE, TRUE, FALSE, FALSE, FALSE >>,
     projection_tied_values |-> << None, None, None, None, None, None >>,
     projection_fixed_values |->
        << Some(Zero), None, Some(Zero), None, None, None >>,
     lattice_params_tied_values |-> << None, None, None, None, None, None >>,
     lattice_params_fixed_values |->
        << None, None, None, Some(Num(90)), None, Some(Num(90)) >>]

OrthorhombicConstraints ==
    [ignored_dims |-> << TRUE, TRUE, TRUE, FALSE, FALSE, FALSE >>,
     projection_tied_values |-> << None, None, None, None, None, None >>,
     projection_fixed_values |->
        << Some(Zero), Some(Zero), Some(Zero), None, None, None >>,
     lattice_params_tied_values |-> << None, None, None, None, None, None >>,
     lattice_params_fixed_values |->
        << None, None, None, Some(Num(90)), Some(Num(90)), Some(Num(90)) >>]

TetragonalConstraints ==
    [ignored_dims |-> << TRUE, TRUE, TRUE, TRUE, FALSE, FALSE >>,
     projection_tied_values |-> << None, None, None, None, None, None >>,
     projection_fixed_values |->
        << Some(Zero), Some(Zero), Some(Zero), Some(Zero), None, None >>,
     lattice_params_tied_values |-> << None, Some(0), None, None, None, None >>,
     lattice_params_fixed_values |->
        << None, None, None, Some(Num(90)), Some(Num(90)), Some(Num(90)) >>]

HexagonalConstraints ==
    [ignored_dims |-> << TRUE, TRUE, TRUE, TRUE, FALSE, FALSE >>,
     projection_tied_values |-> << None, None, None, None, None, None >>,
     projection_fixed_values |->
        << Some(NegLog3Over4), Some(Zero), Some(Zero), Some(Zero), None, None >>,
     lattice_params_tied_values |-> << None, Some(0), None, None, None, None >>,
     lattice_params_fixed_values |->
        << None, None, None, Some(Num(90)), Some(Num(90)), Some(Num(120)) >>]

RhombohedralConstraints ==
    [ignored_dims |-> << FALSE, TRUE, TRUE, TRUE, TRUE, FALSE >>,
     projection_tied_values |-> << None, Some(0), Some(0), None, None, None >>,
     projection_fixed_values |->
        << None, None, None, Some(Zero), Some(Zero), None >>,
     lattice_params_tied_values |->
        << None, Some(0), Some(0), None, Some(3), Some(3) >>,
     lattice_params_fixed_values |-> << None, None, None, None, None, None >>]

CubicConstraints ==
    [ignored_dims |-> << TRUE, TRUE, TRUE, TRUE, TRUE, FALSE >>,
     projection_tied_values |-> << None, None, None, None, None, None >>,
     projection_fixed_values |->
        << Some(Zero), Some(Zero), Some(Zero), Some(Zero), Some(Zero), None >>,
     lattice_params_tied_values |->
        << None, Some(0), Some(0), None, None, None >>,
     lattice_params_fixed_values |->
        << None, None, None, Some(Num(90)), Some(Num(90)), Some(Num(90)) >>]

\* _setup_constraints with the hexagonal branch a copy of the tetragonal one
_setup_constraints_hexagonal_as_tetragonal(system) ==
    IF system = TRICLINIC THEN TriclinicConstraints
    ELSE IF system = MONOCLINIC THEN MonoclinicConstraints
    ELSE IF system = ORTHORHOMBIC THEN OrthorhombicConstraints
    ELSE IF system = TETRAGONAL THEN TetragonalConstraints
    ELSE IF system = HEXAGONAL THEN TetragonalConstraints
    ELSE IF system = RHOMBOHEDRAL THEN RhombohedralConstraints
    ELSE IF system = CUBIC THEN CubicConstraints
    ELSE [error |-> "ValueError"]

\* _setup_constraints with the last dimension of the cubic system ignored
_setup_constraints_cubic_all_ignored(system) ==
    IF system = TRICLINIC THEN TriclinicConstraints
    ELSE IF system = MONOCLINIC THEN MonoclinicConstraints
    ELSE IF system = ORTHORHOMBIC THEN OrthorhombicConstraints
    ELSE IF system = TETRAGONAL THEN TetragonalConstraints
    ELSE IF system = HEXAGONAL THEN HexagonalConstraints
    ELSE IF system = RHOMBOHEDRAL THEN RhombohedralConstraints
    ELSE IF system = CUBIC
    THEN [CubicConstraints EXCEPT !.ignored_dims[6] = TRUE]
    ELSE [error |-> "ValueError"]

\* _setup_constraints with the constant of the hexagonal system doubled
\* three times: -2 * numpy.log(3), below min_projection_values[0]
_setup_constraints_hexagonal_constant_below_min(system) ==
    IF system = TRICLINIC THEN TriclinicConstraints
    ELSE IF system = MONOCLINIC THEN MonoclinicConstraints
    ELSE IF system = ORTHORHOMBIC THEN OrthorhombicConstraints
    ELSE IF system = TETRAGONAL THEN TetragonalConstraints
    ELSE IF system = HEXAGONAL
    THEN [HexagonalConstraints EXCEPT !.projection_fixed_values[1] =
              Some(Mul(Num(8), NegLog3Over4))]
    ELSE IF system = RHOMBOHEDRAL THEN RhombohedralConstraints
    ELSE IF system = CUBIC THEN CubicConstraints
    ELSE [error |-> "ValueError"]

\* _setup_constraints with the rhombohedral angles tied to the last one
_setup_constraints_angles_tied_forward(system) ==
    IF system = TRICLINIC THEN TriclinicConstraints
    ELSE IF system = MONOCLINIC THEN MonoclinicConstraints
    ELSE IF system = ORTHORHOMBIC THEN OrthorhombicConstraints
    ELSE IF system = TETRAGONAL THEN TetragonalConstraints
    ELSE IF system = HEXAGONAL THEN HexagonalConstraints
    ELSE IF system = RHOMBOHEDRAL
    THEN [RhombohedralConstraints EXCEPT !.lattice_params_tied_values =
              << None, Some(0), Some(0), Some(5), Some(5), None >>]
    ELSE IF system = CUBIC THEN CubicConstraints
    ELSE [error |-> "ValueError"]

\* _setup_constraints: the five attributes it sets for the lattice system,
\* or the ValueError it raises (nothing set) for any other name
_setup_constraints(system) ==
    IF system = TRICLINIC THEN TriclinicConstraints
    ELSE IF system = MONOCLINIC THEN MonoclinicConstraints
    ELSE IF system = ORTHORHOMBIC THEN OrthorhombicConstraints
    ELSE IF system = TETRAGONAL THEN TetragonalConstraints
    ELSE IF system = HEXAGONAL THEN HexagonalConstraints
    ELSE IF system = RHOMBOHEDRAL THEN RhombohedralConstraints
    ELSE IF system = CUBIC THEN CubicConstraints
    ELSE [error |-> "ValueError"]

Raised(r) == "error" \in DOMAIN r

----------------------------------------------------------------------------
(* Coordinate transform: state space <-> projection space *)

\* max_proj_v - min_proj_v of each dimension
projection_ranges ==
    [i \in 1..6 |-> Sub(max_projection_values[i], min_projection_values[i])]

\* _state2projection scaling by max_proj_v instead of the range
_state2projection_scaled_by_max(st) ==
    [i \in 1..Len(st) |->
        Add(min_projection_values[i], Mul(st[i], max_projection_values[i]))]

\* _state2projection: min_proj_v + s * (max_proj_v - min_proj_v), per dimension
_state2projection(st) ==
    [i \in 1..Len(st) |->
        Add(min_projection_values[i], Mul(st[i], projection_ranges[i]))]

\* _projection2state dividing by max_proj_v instead of the range
_projection2state_over_max(projection) ==
    [i \in 1..Len(projection) |->
        Div(Sub(projection[i], min_projection_values[i]),
            max_projection_values[i])]

\* _projection2state without the subtraction of min_proj_v
_projection2state_unshifted(projection) ==
    [i \in 1..Len(projection) |-> Div(projection[i], projection_ranges[i])]

\* _projection2state: (proj - min_proj_v) / (max_proj_v - min_proj_v)
_projection2state(projection) ==
    [i \in 1..Len(projection) |->
        Div(Sub(projection[i], min_projection_values[i]), projection_ranges[i])]

----------------------------------------------------------------------------
(* Constraint application *)

\* the loop without its first branch: fixed values are never applied
RECURSIVE apply_constraints_loop_no_fixed(_, _, _, _)
apply_constraints_loop_no_fixed(vector, fixed_values, tied_values, constrained) ==
    LET i == Len(constrained)
        ele_value ==
            IF ~IsNone(At(tied_values, i))
            THEN At(constrained, At(tied_values, i)[1])
            ELSE At(vector, i)
    IN  IF i >= Len(tied_values) THEN constrained
        ELSE apply_constraints_loop_no_fixed(vector, fixed_values, tied_values,
                                             Append(constrained, ele_value))

\* the loop with an unconstrained element read as vector[-i]
RECURSIVE apply_constraints_loop_negative_index(_, _, _, _)
apply_constraints_loop_negative_index(vector, fixed_values, tied_values, constrained) ==
    LET i == Len(constrained)
        ele_value ==
            IF ~IsNone(At(fixed_values, i)) THEN At(fixed_values, i)[1]
            ELSE IF ~IsNone(At(tied_values, i))
                 THEN At(constrained, At(tied_values, i)[1])
            ELSE At(vector, (Len(vector) - i) % Len(vector))
    IN  IF i >= Len(tied_values) THEN constrained
        ELSE apply_constraints_loop_negative_index(
                 vector, fixed_values, tied_values,
                 Append(constrained, ele_value))

\* the loop of apply_projection_constraints and apply_lattice_constraints:
\* constrained is the list built so far, len(tied_values) bounds the loop
RECURSIVE apply_constraints_loop(_, _, _, _)
apply_constraints_loop(vector, fixed_values, tied_values, constrained) ==
    LET i == Len(constrained)
        ele_value ==
            IF ~IsNone(At(fixed_values, i)) THEN At(fixed_values, i)[1]
            ELSE IF ~IsNone(At(tied_values, i))
                 THEN At(constrained, At(tied_values, i)[1])
            ELSE At(vector, i)
    IN  IF i >= Len(tied_values) THEN constrained
        ELSE apply_constraints_loop(vector, fixed_values, tied_values,
                                    Append(constrained, ele_value))

apply_projection_constraints(projection_vector) ==
    apply_constraints_loop(projection_vector, projection_fixed_values,
                           projection_tied_values, << >>)

\* apply_lattice_constraints reading the projection-space attributes
apply_lattice_constraints_projection_table(lattice_params) ==
    apply_constraints_loop(lattice_params, projection_fixed_values,
                           projection_tied_values, << >>)

apply_lattice_constraints(lattice_params) ==
    apply_constraints_loop(lattice_params, lattice_params_fixed_values,
                           lattice_params_tied_values, << >>)

----------------------------------------------------------------------------
(* Coordinate transform: projection space -> lattice-parameter space *)

PARAMETER_NAMES == << "a", "b", "c", "alpha", "beta", "gamma" >>

\* _projection2lattice: expm, sqrt and arccos are not computed.  Each of the
\* six outputs is kept as a term naming the parameter and the projection it
\* was computed from: two outputs are equal only if they are the same
\* parameter of the same projection, and none equals a constant of the table.
_projection2lattice(projection) ==
    [i \in 1..6 |-> [param |-> PARAMETER_NAMES[i], projection |-> projection]]

\* state2lattice without the lattice-space pass
state2lattice_raw(st) ==
    LET projection_vector ==
            apply_projection_constraints(_state2projection(st))
        lattice_params == _projection2lattice(projection_vector)
    IN  << SubSeq(lattice_params, 1, 3), SubSeq(lattice_params, 4, 6) >>

\* state2lattice: [[a, b, c], [alpha, beta, gamma]]
state2lattice(st) ==
    LET projection_vector ==
            apply_projection_constraints(_state2projection(st))
        lattice_params == _projection2lattice(projection_vector)
        constrained == apply_lattice_constraints(lattice_params)
    IN  << SubSeq(constrained, 1, 3), SubSeq(constrained, 4, 6) >>

\* the loop over zip(projection_vector, min, max) of is_valid, from index i
RECURSIVE is_valid_loop(_, _)
is_valid_loop(projection_vector, i) ==
    IF i >= Len(projection_vector) THEN TRUE
    ELSE IF \/ Lt(At(projection_vector, i), At(min_projection_values, i))
            \/ Lt(At(max_projection_values, i), At(projection_vector, i))
         THEN FALSE
    ELSE is_valid_loop(projection_vector, i + 1)

\* is_valid checking the constrained projection, as state2lattice computes it
is_valid_constrained(st) ==
    is_valid_loop(apply_projection_constraints(_state2projection(st)), 0)

is_valid(st) == is_valid_loop(_state2projection(st), 0)

----------------------------------------------------------------------------
(* The cube delegate: ContinuousCube._step *)

Half == Rat(1, 2)
Dims == 1..6

\* an action: the absolute increment of each dimension.  The actions tried
\* move no dimension, one dimension or all six, each by 1/2
MovedDims == {{}} \cup {{i} : i \in Dims} \cup {Dims}
Actions ==
    { [i \in Dims |-> IF i \in moved THEN Half ELSE Zero] : moved \in MovedDims }

\* the candidate the cube returns: the increments added (forward) or
\* subtracted (backward); the action is refused, and the state returned as it
\* was, when a dimension would leave [0, 1]
CubeStep(st, action, backward) ==
    LET cand == [i \in Dims |->
                    IF backward THEN Sub(st[i], action[i])
                    ELSE Add(st[i], action[i])]
        inside == \A i \in Dims : ~Lt(cand[i], Zero) /\ ~Lt(One, cand[i])
    IN  IF inside
        THEN [state |-> cand, valid |-> TRUE]
        ELSE [state |-> st, valid |-> FALSE]

----------------------------------------------------------------------------
(* The environment *)

SetTable(t) ==
    /\ ignored_dims' = t.ignored_dims
    /\ projection_tied_values' = t.projection_tied_values
    /\ projection_fixed_values' = t.projection_fixed_values
    /\ lattice_params_tied_values' = t.lattice_params_tied_values
    /\ lattice_params_fixed_values' = t.lattice_params_fixed_values

\* __init__ with a valid lattice system (any other name raises: no
\* environment is constructed)
Init ==
    /\ lattice_system \in LATTICE_SYSTEMS
    /\ LET t == _setup_constraints(lattice_system)
       IN  /\ ignored_dims = t.ignored_dims
           /\ projection_tied_values = t.projection_tied_values
           /\ projection_fixed_values = t.projection_fixed_values
           /\ lattice_params_tied_values = t.lattice_params_tied_values
           /\ lattice_params_fixed_values = t.lattice_params_fixed_values
    /\ attributes = << >>
    /\ state = source
    /\ n_actions = 0
    /\ committed = FALSE
    /\ call = [op |-> "__init__", arg |-> lattice_system, result |-> "None"]

\* names passed to set_lattice_system: the seven systems and one other
SystemNames == LATTICE_SYSTEMS \cup {"hexagonal_close_packed"}

\* set_lattice_system re-projecting the state onto the new table
set_lattice_system_reprojecting(system) ==
    LET t == _setup_constraints(system)
    IN  /\ lattice_system' = system
        /\ IF Raised(t)
           THEN /\ UNCHANGED <<table, state>>
                /\ call' = [op |-> "set_lattice_system", arg |-> system,
                            result |-> "ValueError"]
           ELSE /\ SetTable(t)
                /\ state' = _projection2state(
                       apply_constraints_loop(_state2projection(state),
                           t.projection_fixed_values,
                           t.projection_tied_values, << >>))
                /\ call' = [op |-> "set_lattice_system", arg |-> system,
                            result |-> "None"]
        /\ committed' = FALSE
        /\ UNCHANGED <<attributes, n_actions>>

\* set_lattice_system: the attribute is assigned, then _setup_constraints
\* sets the table or raises
set_lattice_system(system) ==
    LET t == _setup_constraints(system)
    IN  /\ lattice_system' = system
        /\ IF Raised(t)
           THEN /\ UNCHANGED table
                /\ call' = [op |-> "set_lattice_system", arg |-> system,
                            result |-> "ValueError"]
           ELSE /\ SetTable(t)
                /\ call' = [op |-> "set_lattice_system", arg |-> system,
                            result |-> "None"]
        /\ committed' = FALSE
        /\ UNCHANGED <<attributes, state, n_actions>>

\* the re-projection of _step: the state of the constrained projection of
\* the state the cube returned
Reprojected(st) ==
    LET projection_vector == apply_projection_constraints(_state2projection(st))
    IN  _projection2state(projection_vector)

\* _step committing the cube's candidate as it is
_step_without_reprojection(action, backward) ==
    LET r == CubeStep(state, action, backward)
    IN  /\ n_actions < MaxSteps
        /\ state' = r.state
        /\ n_actions' = IF r.valid THEN n_actions + 1 ELSE n_actions
        /\ call' = [op |-> "_step", arg |-> None, result |-> r.valid]
        /\ committed' = (committed \/ r.valid)
        /\ UNCHANGED <<lattice_system, table, attributes>>

\* _step: the cube's step, then state -> projection -> constraints -> state
_step(action, backward) ==
    LET r == CubeStep(state, action, backward)
    IN  /\ n_actions < MaxSteps
        /\ state' = Reprojected(r.state)
        /\ n_actions' = IF r.valid THEN n_actions + 1 ELSE n_actions
        /\ call' = [op |-> "_step", arg |-> None, result |-> r.valid]
        /\ committed' = (committed \/ r.valid)
        /\ UNCHANGED <<lattice_system, table, attributes>>

Next ==
    \/ \E system \in SystemNames : set_lattice_system(system)
    \/ \E action \in Actions, backward \in BOOLEAN : _step(action, backward)

Spec == Init /\ [][Next]_vars

----------------------------------------------------------------------------
(* Lattice parameters -> projection -> state, and the readable format *)

B1 == << << 0, 1, 0 >>, << 1, 0, 0 >>, << 0, 0, 0 >> >>
B2 == << << 0, 0, 1 >>, << 0, 0, 0 >>, << 1, 0, 0 >> >>
B3 == << << 0, 0, 0 >>, << 0, 0, 1 >>, << 0, 1, 0 >> >>
B4 == << << 1, 0, 0 >>, << 0, -1, 0 >>, << 0, 0, 0 >> >>
B5 == << << 1, 0, 0 >>, << 0, 1, 0 >>, << 0, 0, -2 >> >>
B6 == << << 1, 0, 0 >>, << 0, 1, 0 >>, << 0, 0, 1 >> >>

\* the matrix s of _projection2lattice:
\* k1 * B1 + k2 * B2 + k3 * B3 + k4 * B4 + k5 * B5 + k6 * B6
ProjectionMatrix(projection) ==
    LET B == << B1, B2, B3, B4, B5, B6 >>
        term(n, i, j) == Mul(projection[n], Num(B[n][i][j]))
    IN  [i \in 1..3 |-> [j \in 1..3 |->
            Add(Add(Add(term(1, i, j), term(2, i, j)),
                    Add(term(3, i, j), term(4, i, j))),
                Add(term(5, i, j), term(6, i, j)))]]

\* the outcome of a function that may raise: its value, or the error
Ok(v) == [value |-> v]

\* the tuples passed to parameters2state: None or a tuple each
ParameterTuples ==
    { None,
      Some(<< Num(4), Num(4), Num(4), Num(90), Num(90), Num(90) >>),
      Some(<< Num(2), Num(3), Num(5), Num(80), Num(100), Num(120) >>) }
LengthTuples == { None, Some(<< Num(3), Num(3), Num(7) >>) }
AngleTuples == { None, Some(<< Num(90), Num(90), Num(120) >>) }
\* the six parameters these arguments can give
SixTuples ==
    { p[1] : p \in ParameterTuples \ {None} }
    \cup { l[1] \o a[1] : l \in LengthTuples \ {None},
                          a \in AngleTuples \ {None} }

\* the matrix J of _lattice2projection; the cosines are not computed, the
\* matrix is a term of the parameters
JMatrix(lattice_params) == [j |-> lattice_params]

\* scipy's logm(j, disp=False) is not computed: the matrix s and the residual
\* it returns for each matrix J are inputs of the call, a function logm of J.
\* The residuals drawn are 0, the threshold 1e-9 and 1e-8
LogmThreshold == Rat(1, 1000000000)
LogmErrors == { Zero, LogmThreshold, Rat(1, 100000000) }
\* symmetric 3x3 matrices: a diagonal one, one with six distinct entries
LogmMatrices ==
    { << << Num(2), Zero, Zero >>, << Zero, Num(2), Zero >>,
         << Zero, Zero, Num(4) >> >>,
      << << Num(6), Num(1), Num(-2) >>, << Num(1), Num(2), Num(3) >>,
         << Num(-2), Num(3), Num(4) >> >> }
LogmResults == [s : LogmMatrices, error : LogmErrors]
LogmFunctions == [{ JMatrix(six) : six \in SixTuples } -> LogmResults]
\* logm the same for every J
LogmConstants ==
    { [j \in { JMatrix(six) : six \in SixTuples } |-> r] : r \in LogmResults }

ParameterArguments ==
    [parameters : ParameterTuples, lengths : LengthTuples,
     angles : AngleTuples, logm : LogmFunctions]

\* the recovery with k5 read from the mean of the whole diagonal
RecoverCoefficients_mean_of_diagonal(s) ==
    LET k1 == s[1][2]
        k2 == s[1][3]
        k3 == s[2][3]
        k6 == Div(Add(Add(s[1][1], s[2][2]), s[3][3]), Num(3))
        k5 == Sub(Div(Add(Add(s[1][1], s[2][2]), s[3][3]), Num(3)), k6)
        k4 == Sub(s[1][1], Add(k5, k6))
    IN  << k1, k2, k3, k4, k5, k6 >>

\* the coefficients of _lattice2projection read from the matrix s:
\* k1 = s[0, 1], k2 = s[0, 2], k3 = s[1, 2], k6 = trace(s) / 3,
\* k5 = (s[0, 0] + s[1, 1]) / 2 - k6, k4 = s[0, 0] - k5 - k6
RecoverCoefficients(s) ==
    LET k1 == s[1][2]
        k2 == s[1][3]
        k3 == s[2][3]
        k6 == Div(Add(Add(s[1][1], s[2][2]), s[3][3]), Num(3))
        k5 == Sub(Div(Add(s[1][1], s[2][2]), Num(2)), k6)
        k4 == Sub(s[1][1], Add(k5, k6))
    IN  << k1, k2, k3, k4, k5, k6 >>

\* _lattice2projection without the check of the residual
_lattice2projection_unchecked(lattice_params, logm) ==
    IF Len(lattice_params) # 6
    THEN [error |-> "ValueError", message |-> "values to unpack"]
    ELSE LET result == logm[JMatrix(lattice_params)]
             s == [i \in 1..3 |-> [j \in 1..3 |->
                      Div(result.s[i][j], Num(2))]]
         IN  Ok(RecoverCoefficients(s))

\* _lattice2projection: the six parameters are unpacked (ValueError unless
\* there are six), logm gives s and its residual, a residual above 1e-9
\* raises ValueError, and the coefficients are read from s / 2
_lattice2projection(lattice_params, logm) ==
    IF Len(lattice_params) # 6
    THEN [error |-> "ValueError", message |-> "values to unpack"]
    ELSE IF Lt(LogmThreshold, logm[JMatrix(lattice_params)].error)
    THEN [error |-> "ValueError", message |-> "logm error larger than 1e-9"]
    ELSE LET result == logm[JMatrix(lattice_params)]
             s == [i \in 1..3 |-> [j \in 1..3 |->
                      Div(result.s[i][j], Num(2))]]
         IN  Ok(RecoverCoefficients(s))

CannotDetermine ==
    [error |-> "ValueError", message |-> "Cannot determine all six parameters."]

\* LatticeParametersSGCCG.parameters2state taking lengths + angles whenever
\* both are given
parameters2state_lengths_first(parameters, lengths, angles, logm) ==
    IF IsNone(parameters) /\ (IsNone(lengths) \/ IsNone(angles))
    THEN CannotDetermine
    ELSE LET six == IF IsNone(lengths) \/ IsNone(angles) THEN parameters[1]
                    ELSE lengths[1] \o angles[1]
             projection_vector == _lattice2projection(six, logm)
         IN  IF Raised(projection_vector) THEN projection_vector
             ELSE Ok(_projection2state(projection_vector.value))

\* LatticeParametersSGCCG.parameters2state
parameters2state(parameters, lengths, angles, logm) ==
    IF IsNone(parameters) /\ (IsNone(lengths) \/ IsNone(angles))
    THEN CannotDetermine
    ELSE LET six == IF IsNone(parameters) THEN lengths[1] \o angles[1]
                    ELSE parameters[1]
             projection_vector == _lattice2projection(six, logm)
         IN  IF Raised(projection_vector) THEN projection_vector
             ELSE Ok(_projection2state(projection_vector.value))

\* a string is the sequence of its characters
\* str.replace(c, ""), c one character
Remove(readable, c) == SelectSeq(readable, LAMBDA ch : ch # c)

\* str.split(sep), sep one character
RECURSIVE split(_, _)
split(readable, sep) ==
    LET seps == { i \in 1..Len(readable) : readable[i] = sep }
        first == CHOOSE i \in seps : \A j \in seps : i <= j
    IN  IF seps = {} THEN << readable >>
        ELSE << SubSeq(readable, 1, first - 1) >>
             \o split(SubSeq(readable, first + 1, Len(readable)), sep)

DigitChars == << "0", "1", "2", "3", "4", "5", "6", "7", "8", "9" >>
IsDigit(ch) == \E i \in 1..10 : DigitChars[i] = ch
DigitValue(ch) == (CHOOSE i \in 1..10 : DigitChars[i] = ch) - 1

RECURSIVE DigitsValue(_)
DigitsValue(digits) ==
    IF digits = << >> THEN 0
    ELSE 10 * DigitsValue(SubSeq(digits, 1, Len(digits) - 1))
         + DigitValue(digits[Len(digits)])

RECURSIVE Pow10(_)
Pow10(k) == IF k = 0 THEN 1 ELSE 10 * Pow10(k - 1)

\* float(value) of a string of signs, digits and points: an optional sign,
\* then digits with at most one point and at least one digit; ValueError
\* for anything else
float(value) ==
    LET signed == Len(value) > 0 /\ (value[1] = "-" \/ value[1] = "+")
        body == IF signed THEN Tail(value) ELSE value
        points == { i \in 1..Len(body) : body[i] = "." }
        digits == SelectSeq(body, IsDigit)
        decimals == IF points = {} THEN 0
                    ELSE Len(body) - (CHOOSE i \in points : TRUE)
        magnitude == Rat(DigitsValue(digits), Pow10(decimals))
    IN  IF \/ Cardinality(points) > 1
           \/ Len(digits) = 0
           \/ Len(digits) + Cardinality(points) # Len(body)
        THEN [error |-> "ValueError"]
        ELSE IF signed /\ value[1] = "-" THEN Sub(Zero, magnitude)
        ELSE magnitude

\* the call self._lattice2projection(*values): the method takes one argument
\* besides self, so any other number of values is a TypeError; a single
\* value is bound to lattice_params, a float, which cannot be unpacked
Star_lattice2projection(values, logm) ==
    IF Len(values) # 1 THEN [error |-> "TypeError"]
    ELSE [error |-> "TypeError"]

\* LatticeParametersSGCCG.readable2state
readable2state(readable, logm) ==
    LET stripped == Remove(Remove(Remove(readable, "("), ")"), " ")
        parts == split(stripped, ",")
        values == [i \in 1..Len(parts) |-> float(parts[i])]
        projection_vector == Star_lattice2projection(values, logm)
    IN  IF \E i \in 1..Len(values) : Raised(values[i])
        THEN [error |-> "ValueError"]
        ELSE IF Raised(projection_vector) THEN projection_vector
        ELSE Ok(_projection2state(projection_vector.value))

DigitChar(k) == DigitChars[k + 1]

RECURSIVE Digits(_)
Digits(k) ==
    IF k < 10 THEN << DigitChar(k) >>
    ELSE Digits(k \div 10) \o << DigitChar(k % 10) >>

\* str() of a float with at most three decimals, as Python prints it: "4.0",
\* "0.5", "-1.25".  The string of any other value is not computed: it is one
\* character that stands for the whole string
FloatStr(v) ==
    IF "param" \in DOMAIN v \/ v.l # 0 \/ 1000 % v.d # 0 THEN << v >>
    ELSE LET thousandths == Abs(v.n) * (1000 \div v.d)
             fraction == thousandths % 1000
             tenth == DigitChar(fraction \div 100)
             hundredth == DigitChar((fraction \div 10) % 10)
             thousandth == DigitChar(fraction % 10)
             decimals == IF fraction % 100 = 0 THEN << tenth >>
                         ELSE IF fraction % 10 = 0 THEN << tenth, hundredth >>
                         ELSE << tenth, hundredth, thousandth >>
         IN  (IF v.n < 0 THEN << "-" >> ELSE << >>)
             \o Digits(thousandths \div 1000) \o << "." >> \o decimals

\* LatticeParametersSGCCG.state2readable:
\* f"({a}, {b}, {c}), ({alpha}, {beta}, {gamma})"
state2readable(st) ==
    LET lattice == state2lattice(st)
        triple(t) == << "(" >> \o FloatStr(t[1]) \o << ",", " " >>
                     \o FloatStr(t[2]) \o << ",", " " >> \o FloatStr(t[3])
                     \o << ")" >>
    IN  triple(lattice[1]) \o << ",", " " >> \o triple(lattice[2])

\* a value cast to float_type: a rational with a power of two as denominator
\* is a float of either width and is kept; the rounding of any other value
\* is not computed, the result is a term of the value
ToFloat(v) ==
    IF "param" \notin DOMAIN v /\ v.l = 0 /\ (\E k \in 0..10 : v.d = 2^k)
    THEN v
    ELSE [rounded |-> v]

\* the elements of a nested list of the given depth, cast
RECURSIVE ToFloatNested(_, _)
ToFloatNested(x, depth) ==
    IF depth = 0 THEN ToFloat(x)
    ELSE [i \in 1..Len(x) |-> ToFloatNested(x[i], depth - 1)]

\* utils.common.tfloat of a tensor or of a nested list of floats: on a list
\* x[0] is read to see whether it holds tensors, an IndexError when the list
\* is empty; then every element is cast to float_type
tfloat(x, is_tensor, depth) ==
    IF ~is_tensor /\ Len(x) = 0 THEN [error |-> "IndexError"]
    ELSE Ok(ToFloatNested(x, depth))

\* tensor.flatten(1) of a batch of [[a, b, c], [alpha, beta, gamma]]
Flatten1(batch) == [i \in 1..Len(batch) |-> batch[i][1] \o batch[i][2]]

\* LatticeParametersSGCCG.states2proxy of a batch given as a list or as a
\* tensor
states2proxy(states, is_tensor) ==
    LET batch == tfloat(states, is_tensor, 2)
    IN  IF Raised(batch) THEN batch
        ELSE LET proxy_input ==
                     [i \in 1..Len(batch.value) |->
                         state2lattice(batch.value[i])]
                 out == tfloat(proxy_input, FALSE, 3)
             IN  IF Raised(out) THEN out ELSE Ok(Flatten1(out.value))

----------------------------------------------------------------------------
(* The non-projected environment: LatticeParameters *)

LENGTH_PARAMETER_NAMES == << "a", "b", "c" >>
ANGLE_PARAMETER_NAMES == << "alpha", "beta", "gamma" >>

\* the defaults of __init__
min_length == Num(1)
max_length == Num(350)
length_range == Sub(max_length, min_length)
min_angle == Num(50)
max_angle == Num(150)
angle_range == Sub(max_angle, min_angle)

_statevalue2length(value) == Add(min_length, Mul(value, length_range))
_length2statevalue(length) == Div(Sub(length, min_length), length_range)
_statevalue2angle(value) == Add(min_angle, Mul(value, angle_range))
_angle2statevalue(angle) == Div(Sub(angle, min_angle), angle_range)

\* the attributes of an instance are a function from their names
hasattr(attrs, name) == name \in DOMAIN attrs
\* attrs after the assignments self.<name> = new[name]
SetAttrs(attrs, new) ==
    [name \in DOMAIN attrs \cup DOMAIN new |->
        IF name \in DOMAIN new THEN new[name] ELSE attrs[name]]

\* _setup_constraints, lengths: the ignored dimensions and the assignments,
\* or the ValueError of a name that is no lattice system
LengthConstraints(system) ==
    IF system \in {CUBIC, RHOMBOHEDRAL}
    THEN [ignored_dims |-> << FALSE, TRUE, TRUE >>,
          attrs |-> [a_idx |-> Some(0), b_idx |-> Some(0), c_idx |-> Some(0)]]
    ELSE IF system \in {HEXAGONAL, TETRAGONAL}
    THEN [ignored_dims |-> << FALSE, TRUE, FALSE >>,
          attrs |-> [a_idx |-> Some(0), b_idx |-> Some(0), c_idx |-> Some(2)]]
    ELSE IF system \in {MONOCLINIC, ORTHORHOMBIC, TRICLINIC}
    THEN [ignored_dims |-> << FALSE, FALSE, FALSE >>,
          attrs |-> [a_idx |-> Some(0), b_idx |-> Some(1), c_idx |-> Some(2)]]
    ELSE [error |-> "ValueError"]

\* the assignments of an angle fixed to a value: its index is None
FixedAngle(param, angle) ==
    IF param = "alpha"
    THEN [alpha_idx |-> None, alpha |-> angle,
          alpha_state |-> _angle2statevalue(angle)]
    ELSE IF param = "beta"
    THEN [beta_idx |-> None, beta |-> angle,
          beta_state |-> _angle2statevalue(angle)]
    ELSE [gamma_idx |-> None, gamma |-> angle,
          gamma_state |-> _angle2statevalue(angle)]

\* _setup_constraints, angles
AngleConstraints(system) ==
    IF system \in {CUBIC, ORTHORHOMBIC, TETRAGONAL}
    THEN [ignored_dims |-> << TRUE, TRUE, TRUE >>,
          attrs |-> SetAttrs(SetAttrs(FixedAngle("alpha", Num(90)),
                                      FixedAngle("beta", Num(90))),
                             FixedAngle("gamma", Num(90)))]
    ELSE IF system = HEXAGONAL
    THEN [ignored_dims |-> << TRUE, TRUE, TRUE >>,
          attrs |-> SetAttrs(SetAttrs(FixedAngle("alpha", Num(90)),
                                      FixedAngle("beta", Num(90))),
                             FixedAngle("gamma", Num(120)))]
    ELSE IF system = MONOCLINIC
    THEN [ignored_dims |-> << TRUE, FALSE, TRUE >>,
          attrs |-> SetAttrs(SetAttrs(FixedAngle("alpha", Num(90)),
                                      [beta_idx |-> Some(4)]),
                             FixedAngle("gamma", Num(90)))]
    ELSE IF system = RHOMBOHEDRAL
    THEN [ignored_dims |-> << FALSE, TRUE, TRUE >>,
          attrs |-> [alpha_idx |-> Some(3), beta_idx |-> Some(3),
                     gamma_idx |-> Some(3)]]
    ELSE IF system = TRICLINIC
    THEN [ignored_dims |-> << FALSE, FALSE, FALSE >>,
          attrs |-> [alpha_idx |-> Some(3), beta_idx |-> Some(4),
                     gamma_idx |-> Some(5)]]
    ELSE [error |-> "NotImplementedError"]

\* LatticeParameters._setup_constraints with any other name read as triclinic
LatticeParameters_setup_constraints_default_triclinic(system, attrs) ==
    LET name == IF system \in LATTICE_SYSTEMS THEN system ELSE TRICLINIC
        lengths == LengthConstraints(name)
        angles == AngleConstraints(name)
    IN  [ignored_dims |-> lengths.ignored_dims \o angles.ignored_dims,
         attributes |-> SetAttrs(SetAttrs(attrs, lengths.attrs), angles.attrs)]

\* LatticeParameters._setup_constraints on an instance with attributes attrs:
\* ignored_dims and the attributes afterwards, or the error raised and the
\* attributes assigned before it
LatticeParameters_setup_constraints(system, attrs) ==
    LET lengths == LengthConstraints(system)
        angles == AngleConstraints(system)
    IN  IF Raised(lengths)
        THEN [error |-> lengths.error, attributes |-> attrs]
        ELSE IF Raised(angles)
        THEN [error |-> angles.error,
              attributes |-> SetAttrs(attrs, lengths.attrs)]
        ELSE [ignored_dims |-> lengths.ignored_dims \o angles.ignored_dims,
              attributes |->
                  SetAttrs(SetAttrs(attrs, lengths.attrs), angles.attrs)]

\* _get_index_of_param: the attribute <param>_idx, None without it
_get_index_of_param(attrs, param) ==
    IF hasattr(attrs, param \o "_idx") THEN attrs[param \o "_idx"] ELSE None

\* _set_param: the state with the value of param written at its index, in
\* state units; unchanged when the parameter has no index
_set_param(attrs, st, param, value) ==
    LET param_idx == _get_index_of_param(attrs, param)
    IN  IF IsNone(param_idx) THEN st
        ELSE IF \E i \in 1..3 : LENGTH_PARAMETER_NAMES[i] = param
        THEN [st EXCEPT ![param_idx[1] + 1] = _length2statevalue(value)]
        ELSE [st EXCEPT ![param_idx[1] + 1] = _angle2statevalue(value)]

\* _get_param: the attribute named param when the instance has one, else
\* the value of the state at the index of param, in angstroms or degrees
_get_param(attrs, st, param) ==
    IF hasattr(attrs, param) THEN attrs[param]
    ELSE IF \E i \in 1..3 : LENGTH_PARAMETER_NAMES[i] = param
    THEN _statevalue2length(At(st, _get_index_of_param(attrs, param)[1]))
    ELSE _statevalue2angle(At(st, _get_index_of_param(attrs, param)[1]))

\* _unpack_lengths_angles: (a, b, c), (alpha, beta, gamma)
_unpack_lengths_angles(attrs, st) ==
    LET p == [i \in 1..6 |-> _get_param(attrs, st, PARAMETER_NAMES[i])]
    IN  << << p[1], p[2], p[3] >>, << p[4], p[5], p[6] >> >>

\* the loop of LatticeParameters.parameters2state over zip(PARAMETER_NAMES,
\* parameters), from index i
RECURSIVE LatticeParameters_parameters2state_loop(_, _, _, _)
LatticeParameters_parameters2state_loop(attrs, st, parameters, i) ==
    IF i >= Len(PARAMETER_NAMES) \/ i >= Len(parameters) THEN st
    ELSE LatticeParameters_parameters2state_loop(
             attrs,
             _set_param(attrs, st, At(PARAMETER_NAMES, i), At(parameters, i)),
             parameters, i + 1)

\* LatticeParameters.parameters2state on an instance with attributes attrs
LatticeParameters_parameters2state(attrs, parameters, lengths, angles) ==
    IF IsNone(parameters) /\ (IsNone(lengths) \/ IsNone(angles))
    THEN CannotDetermine
    ELSE LET six == IF IsNone(parameters) THEN lengths[1] \o angles[1]
                    ELSE parameters[1]
         IN  Ok(LatticeParameters_parameters2state_loop(attrs, source, six, 0))

\* the loop of LatticeParameters._step over enumerate(zip(PARAMETER_NAMES,
\* ignored_dims)), from index idx: an ignored dimension takes the value of the
\* dimension of its index, or its <param>_state without an index
RECURSIVE LatticeParameters_step_loop(_, _, _, _)
LatticeParameters_step_loop(st, attrs, ignored, idx) ==
    IF idx >= Len(PARAMETER_NAMES) \/ idx >= Len(ignored) THEN st
    ELSE IF ~At(ignored, idx)
    THEN LatticeParameters_step_loop(st, attrs, ignored, idx + 1)
    ELSE LET param == At(PARAMETER_NAMES, idx)
             param_idx == _get_index_of_param(attrs, param)
             value == IF ~IsNone(param_idx) THEN At(st, param_idx[1])
                      ELSE attrs[param \o "_state"]
         IN  LatticeParameters_step_loop([st EXCEPT ![idx + 1] = value],
                                         attrs, ignored, idx + 1)

\* the increments (0.1, 0.2, 0.3, 0.4, 0.5, 0.6)
TenthsAction == [i \in Dims |-> Rat(i, 10)]
\* the actions tried: the one above, and a, c or beta moved by 1/2
LatticeParametersMovedDims == {{1}, {3}, {5}}
LatticeParametersActions ==
    {TenthsAction} \cup
    { [i \in Dims |-> IF i \in moved THEN Half ELSE Zero] :
          moved \in LatticeParametersMovedDims }

sgccg_table == <<projection_tied_values, projection_fixed_values,
                 lattice_params_tied_values, lattice_params_fixed_values>>

\* the outcome of constructing an environment of either class: the instance
\* attributes _setup_constraints sets, or the error it raises
LatticeParameters__init__(system) ==
    LatticeParameters_setup_constraints(system, << >>)
LatticeParametersSGCCG__init__(system) == _setup_constraints(system)

\* LatticeParameters.__init__ with a valid lattice system
InitLatticeParameters ==
    /\ lattice_system \in LATTICE_SYSTEMS
    /\ LET r == LatticeParameters__init__(lattice_system)
       IN  /\ ignored_dims = r.ignored_dims
           /\ attributes = r.attributes
    /\ projection_tied_values = None
    /\ projection_fixed_values = None
    /\ lattice_params_tied_values = None
    /\ lattice_params_fixed_values = None
    /\ state = source
    /\ n_actions = 0
    /\ committed = FALSE
    /\ call = [op |-> "__init__", arg |-> lattice_system, result |-> "None"]

\* LatticeParameters.set_lattice_system: the attribute is assigned, then
\* _setup_constraints sets the indices and ignored_dims or raises
LatticeParameters_set_lattice_system(system) ==
    LET r == LatticeParameters_setup_constraints(system, attributes)
    IN  /\ lattice_system' = system
        /\ attributes' = r.attributes
        /\ IF Raised(r)
           THEN /\ UNCHANGED ignored_dims
                /\ call' = [op |-> "set_lattice_system", arg |-> system,
                            result |-> r.error]
           ELSE /\ ignored_dims' = r.ignored_dims
                /\ call' = [op |-> "set_lattice_system", arg |-> system,
                            result |-> "None"]
        /\ committed' = FALSE
        /\ UNCHANGED <<sgccg_table, state, n_actions>>

\* LatticeParameters._step overwriting the ignored dimensions of an accepted
\* step only
LatticeParameters_step_accepted_only(action, backward) ==
    LET r == CubeStep(state, action, backward)
    IN  /\ n_actions < MaxSteps
        /\ state' = IF r.valid
                    THEN LatticeParameters_step_loop(r.state, attributes,
                                                     ignored_dims, 0)
                    ELSE r.state
        /\ n_actions' = IF r.valid THEN n_actions + 1 ELSE n_actions
        /\ call' = [op |-> "_step", arg |-> << action, backward >>,
                    result |-> r.valid]
        /\ committed' = (committed \/ r.valid)
        /\ UNCHANGED <<lattice_system, table, attributes>>

\* LatticeParameters._step: the cube's step, then the ignored dimensions are
\* overwritten, whatever valid is
LatticeParameters_step(action, backward) ==
    LET r == CubeStep(state, action, backward)
    IN  /\ n_actions < MaxSteps
        /\ state' = LatticeParameters_step_loop(r.state, attributes,
                                                ignored_dims, 0)
        /\ n_actions' = IF r.valid THEN n_actions + 1 ELSE n_actions
        /\ call' = [op |-> "_step", arg |-> << action, backward >>,
                    result |-> r.valid]
        /\ committed' = (committed \/ r.valid)
        /\ UNCHANGED <<lattice_system, table, attributes>>

NextLatticeParameters ==
    \/ \E system \in SystemNames :
           LatticeParameters_set_lattice_system(system)
    \/ \E action \in LatticeParametersActions, backward \in BOOLEAN :
           LatticeParameters_step(action, backward)

SpecLatticeParameters ==
    InitLatticeParameters /\ [][NextLatticeParameters]_vars

----------------------------------------------------------------------------
(* The pure functions, called on drawn arguments under each lattice system *)

\* the values of an argument vector: -1, 1/2, 2, ...
ArgVals == { Rat(3 * k - 2, 2) : k \in 0..MaxArg }
\* argument vectors: the source state and every vector over ArgVals
ArgVecs == {source} \cup [Dims -> ArgVals]

\* "(4.0, 4.0, 4.0), (90.0, 90.0, 90.0)"
CubicReadable ==
    << "(", "4", ".", "0", ",", " ", "4", ".", "0", ",", " ", "4", ".", "0",
       ")", ",", " ", "(", "9", "0", ".", "0", ",", " ", "9", "0", ".", "0",
       ",", " ", "9", "0", ".", "0", ")" >>
\* "(2.5,3.0,5.0),(80.0,100.0,120.0)"
TriclinicReadable ==
    << "(", "2", ".", "5", ",", "3", ".", "0", ",", "5", ".", "0", ")", ",",
       "(", "8", "0", ".", "0", ",", "1", "0", "0", ".", "0", ",",
       "1", "2", "0", ".", "0", ")" >>
\* the strings passed to readable2state: the two above, "4.0" and
\* "(4.0, 4.0.0)"
Readables ==
    { CubicReadable, TriclinicReadable, << "4", ".", "0" >>,
      << "(", "4", ".", "0", ",", " ", "4", ".", "0", ".", "0", ")" >> }

\* the batches passed to states2proxy: up to MaxBatch states, as a list or
\* as a tensor
BatchStates ==
    { source, [i \in Dims |-> Half],
      << Num(-1), Half, Num(2), Rat(3, 4), Rat(1, 4), One >> }
Batches == UNION { [1..n -> BatchStates] : n \in 0..MaxBatch }

\* the arguments of the calls: a vector for the functions of a state, a
\* projection or lattice parameters; a string and the result of logm for
\* readable2state
Arguments ==
    { [op |-> "argument", arg |-> v, result |-> "None"] : v \in ArgVecs }
    \cup { [op |-> "readable", arg |-> [readable |-> r, logm |-> lm],
            result |-> "None"] : r \in Readables, lm \in LogmConstants }
    \cup { [op |-> "parameters", arg |-> a, result |-> "None"] :
             a \in ParameterArguments }
    \cup { [op |-> "states", arg |-> [states |-> b, is_tensor |-> t],
            result |-> "None"] : b \in Batches, t \in BOOLEAN }

\* an environment of each class constructed for the lattice system, and the
\* argument of the call to come
InitFn ==
    /\ lattice_system \in LATTICE_SYSTEMS
    /\ LET t == _setup_constraints(lattice_system)
       IN  /\ ignored_dims = t.ignored_dims
           /\ projection_tied_values = t.projection_tied_values
           /\ projection_fixed_values = t.projection_fixed_values
           /\ lattice_params_tied_values = t.lattice_params_tied_values
           /\ lattice_params_fixed_values = t.lattice_params_fixed_values
    /\ attributes =
           LatticeParameters_setup_constraints(lattice_system, << >>).attributes
    /\ state = source
    /\ n_actions = 0
    /\ committed = FALSE
    /\ call \in Arguments

Returns(name, value) ==
    /\ call.op = "argument"
    /\ call' = [op |-> name, arg |-> call.arg, result |-> value]
    /\ UNCHANGED <<lattice_system, table, attributes, state, n_actions,
                   committed>>

\* a call of the function name on an argument of the given kind
ReturnsFrom(kind, name, value) ==
    /\ call.op = kind
    /\ call' = [op |-> name, arg |-> call.arg, result |-> value]
    /\ UNCHANGED <<lattice_system, table, attributes, state, n_actions,
                   committed>>

CallReadable2State ==
    ReturnsFrom("readable", "readable2state",
                readable2state(call.arg.readable, call.arg.logm))

CallParameters2State ==
    ReturnsFrom("parameters", "parameters2state",
                parameters2state(call.arg.parameters, call.arg.lengths,
                                 call.arg.angles, call.arg.logm))

CallLatticeParametersParameters2State ==
    ReturnsFrom("parameters", "LatticeParameters.parameters2state",
                LatticeParameters_parameters2state(
                    attributes, call.arg.parameters, call.arg.lengths,
                    call.arg.angles))

CallStates2Proxy ==
    ReturnsFrom("states", "states2proxy",
                states2proxy(call.arg.states, call.arg.is_tensor))

CallState2Projection ==
    Returns("_state2projection", _state2projection(call.arg))

CallProjection2State ==
    Returns("_projection2state", _projection2state(call.arg))

\* the matrix s of _projection2lattice for the coefficients of the call,
\* then the coefficients _lattice2projection reads from that matrix
CallRecoverCoefficients ==
    Returns("recover_coefficients",
            RecoverCoefficients(ProjectionMatrix(call.arg)))

CallApplyProjectionConstraints ==
    Returns("apply_projection_constraints",
            apply_projection_constraints(call.arg))

CallApplyLatticeConstraints ==
    Returns("apply_lattice_constraints", apply_lattice_constraints(call.arg))

CallState2Lattice == Returns("state2lattice", state2lattice(call.arg))

CallIsValid == Returns("is_valid", is_valid(call.arg))

NextFn ==
    \/ CallState2Projection
    \/ CallProjection2State
    \/ CallRecoverCoefficients
    \/ CallApplyProjectionConstraints
    \/ CallApplyLatticeConstraints
    \/ CallState2Lattice
    \/ CallIsValid
    \/ CallReadable2State
    \/ CallParameters2State
    \/ CallStates2Proxy
    \/ CallLatticeParametersParameters2State

SpecFn == InitFn /\ [][NextFn]_vars

----------------------------------------------------------------------------
(* utils/common.py: batch_with_rest and find_latest_checkpoint *)

Min(a, b) == IF a < b THEN a ELSE b

\* Python's range(start, stop, step) as a list, step # 0
RECURSIVE range(_, _, _)
range(start, stop, step) ==
    IF (step > 0 /\ start >= stop) \/ (step < 0 /\ start <= stop) THEN << >>
    ELSE << start >> \o range(start + step, stop, step)

\* numpy.arange(lo, hi) / torch.arange(lo, hi): lo, lo + 1, .., hi - 1
arange(lo, hi) == [k \in 1..(IF hi > lo THEN hi - lo ELSE 0) |-> lo + k - 1]

\* batch_with_rest with batches that do not stop at stop
batch_with_rest_unclipped(start, stop, step) ==
    IF step = 0 THEN [error |-> "ValueError"]
    ELSE LET starts == range(start, stop, step)
         IN  Ok([n \in 1..Len(starts) |->
                    arange(starts[n], starts[n] + step)])

\* batch_with_rest: the list of the batches yielded, in order; range raises
\* ValueError for a step of 0
batch_with_rest(start, stop, step) ==
    IF step = 0 THEN [error |-> "ValueError"]
    ELSE LET starts == range(start, stop, step)
         IN  Ok([n \in 1..Len(starts) |->
                    arange(starts[n], Min(starts[n] + step, stop))])

\* sub occurs in the string s at position i
OccursAt(s, sub, i) ==
    /\ i + Len(sub) - 1 <= Len(s)
    /\ SubSeq(s, i, i + Len(sub) - 1) = sub
Contains(s, sub) == \E i \in 1..Len(s) : OccursAt(s, sub, i)

\* str.split(sep), sep a string that is not empty
RECURSIVE split_on(_, _)
split_on(s, sep) ==
    LET found == { i \in 1..Len(s) : OccursAt(s, sep, i) }
        first == CHOOSE i \in found : \A j \in found : i <= j
    IN  IF found = {} THEN << s >>
        ELSE << SubSeq(s, 1, first - 1) >>
             \o split_on(SubSeq(s, first + Len(sep), Len(s)), sep)

\* Path.stem: the name without its last suffix; a name has a suffix when
\* its last point is neither its first nor its last character
stem(name) ==
    LET points == { i \in 1..Len(name) : name[i] = "." }
        last == CHOOSE i \in points : \A j \in points : j <= i
    IN  IF points = {} \/ last = 1 \/ last = Len(name) THEN name
        ELSE SubSeq(name, 1, last - 1)

FinalPattern == << "f", "i", "n", "a", "l" >>
IterPrefix == << "i", "t", "e", "r", "_" >>

\* the sort key of a checkpoint: float(f.stem.split("iter_")[1])
IterationKey(f) == float(split_on(stem(f), IterPrefix)[2])

\* find_latest_checkpoint returning the last iter_* file of the listing
find_latest_checkpoint_unsorted(listing) ==
    LET final == SelectSeq(listing, LAMBDA f : Contains(f, FinalPattern))
        ckpts == SelectSeq(listing, LAMBDA f : OccursAt(f, IterPrefix, 1))
    IN  IF Len(final) > 0 THEN Ok(final[1])
        ELSE IF Len(ckpts) = 0
        THEN [error |-> "ValueError", message |-> "No checkpoints found"]
        ELSE Ok(ckpts[Len(ckpts)])

\* find_latest_checkpoint on a directory whose glob lists the names in the
\* order of listing: the first *final* name, else the last of the iter_*
\* names sorted by key (the sort is stable: among equal keys the last listed),
\* ValueError with neither, and the ValueError of float for a key that is
\* no number
find_latest_checkpoint(listing) ==
    LET final == SelectSeq(listing, LAMBDA f : Contains(f, FinalPattern))
        ckpts == SelectSeq(listing, LAMBDA f : OccursAt(f, IterPrefix, 1))
        keys == [i \in 1..Len(ckpts) |-> IterationKey(ckpts[i])]
        latest == CHOOSE i \in 1..Len(ckpts) :
                      /\ \A j \in 1..Len(ckpts) : ~Lt(keys[i], keys[j])
                      /\ \A j \in (i + 1)..Len(ckpts) : Lt(keys[j], keys[i])
    IN  IF Len(final) > 0 THEN Ok(final[1])
        ELSE IF Len(ckpts) = 0
        THEN [error |-> "ValueError", message |-> "No checkpoints found"]
        ELSE IF \E i \in 1..Len(ckpts) : Raised(keys[i])
        THEN [error |-> "ValueError", message |-> "could not convert"]
        ELSE Ok(ckpts[latest])

\* the file names a directory may hold: "final.pt", "run_final.pt",
\* "iter_9.pt", "iter_10.pt", "iter_10.ckpt", "log.txt", "iter_x.pt"
AllFiles ==
    << << "f", "i", "n", "a", "l", ".", "p", "t" >>,
       << "r", "u", "n", "_", "f", "i", "n", "a", "l", ".", "p", "t" >>,
       << "i", "t", "e", "r", "_", "9", ".", "p", "t" >>,
       << "i", "t", "e", "r", "_", "1", "0", ".", "p", "t" >>,
       << "i", "t", "e", "r", "_", "1", "0", ".", "c", "k", "p", "t" >>,
       << "l", "o", "g", ".", "t", "x", "t" >>,
       << "i", "t", "e", "r", "_", "x", ".", "p", "t" >> >>

\* the names of the directory holding the files numbered in present, in the
\* order glob lists them: the order of AllFiles or its reverse
RECURSIVE Listing(_, _, _)
Listing(present, reversed, i) ==
    IF i > Len(AllFiles) THEN << >>
    ELSE LET rest == Listing(present, reversed, i + 1)
             here == IF i \in present THEN << AllFiles[i] >> ELSE << >>
         IN  IF reversed THEN rest \o here ELSE here \o rest

DirectoryArguments ==
    [present : SUBSET (1..Len(AllFiles)), reversed : BOOLEAN]

RangeArguments ==
    [start : 0..MaxStop, stop : 0..MaxStop, step : -1..MaxStop]

CommonArguments ==
    { [op |-> "range", arg |-> a, result |-> "None"] : a \in RangeArguments }
    \cup { [op |-> "ckpt_dir", arg |-> a, result |-> "None"] :
             a \in DirectoryArguments }

\* no environment is involved: the functions are called on drawn arguments
InitCommon ==
    /\ lattice_system = TRICLINIC
    /\ LET t == _setup_constraints(lattice_system)
       IN  /\ ignored_dims = t.ignored_dims
           /\ projection_tied_values = t.projection_tied_values
           /\ projection_fixed_values = t.projection_fixed_values
           /\ lattice_params_tied_values = t.lattice_params_tied_values
           /\ lattice_params_fixed_values = t.lattice_params_fixed_values
    /\ attributes = << >>
    /\ state = source
    /\ n_actions = 0
    /\ committed = FALSE
    /\ call \in CommonArguments

CallBatchWithRest ==
    ReturnsFrom("range", "batch_with_rest",
                batch_with_rest(call.arg.start, call.arg.stop, call.arg.step))

CallFindLatestCheckpoint ==
    ReturnsFrom("ckpt_dir", "find_latest_checkpoint",
                find_latest_checkpoint(
                    Listing(call.arg.present, call.arg.reversed, 1)))

NextCommon ==
    \/ CallBatchWithRest
    \/ CallFindLatestCheckpoint

SpecCommon == InitCommon /\ [][NextCommon]_vars

----------------------------------------------------------------------------
(* Properties *)

DimIndices == 0..5

\* the projection vector p holds every fixed constant and every tie of the
\* active table
HoldsProjectionConstraints(p) ==
    \A i \in DimIndices :
        IF ~IsNone(At(projection_fixed_values, i))
        THEN At(p, i) = At(projection_fixed_values, i)[1]
        ELSE ~IsNone(At(projection_tied_values, i)) =>
                At(p, i) = At(p, At(projection_tied_values, i)[1])

\* the projection of st is a fixed point of apply_projection_constraints
IsProjectionFixedPoint(st) ==
    apply_projection_constraints(_state2projection(st)) = _state2projection(st)

StepReturned(valid) == call.op = "_step" /\ call.result = valid

C3_RefusedStepLeavesState ==
    [][(call'.op = "_step" /\ call'.result = FALSE) => state' = state]_vars

\* C4: set_lattice_system with a valid name assigns lattice_system, replaces
\* ignored_dims and the four constraint arrays by the table of that system,
\* and leaves the state vector unchanged.
C4_SetLatticeSystemKeepsState ==
    [][(call'.op = "set_lattice_system" /\ call'.result = "None") =>
            /\ lattice_system' = call'.arg
            /\ SetTable(_setup_constraints(call'.arg))
            /\ state' = state]_vars

\* a successful set_lattice_system after a step, leaving a state that does
\* not satisfy the table it installed
C4_Witness ==
    /\ call.op = "set_lattice_system"
    /\ call.result = "None"
    /\ n_actions > 0
    /\ ~HoldsProjectionConstraints(_state2projection(state))

\* the table of the specification, as the sets of constrained indices
TableIgnored(system) ==
    CASE system = TRICLINIC -> {}
      [] system = MONOCLINIC -> {0, 2}
      [] system = ORTHORHOMBIC -> {0, 1, 2}
      [] system = TETRAGONAL -> {0, 1, 2, 3}
      [] system = HEXAGONAL -> {0, 1, 2, 3}
      [] system = RHOMBOHEDRAL -> {1, 2, 3, 4}
      [] system = CUBIC -> {0, 1, 2, 3, 4}

TableProjectionFixed(system) ==
    CASE system = TRICLINIC -> {}
      [] system = MONOCLINIC -> {<<0, Zero>>, <<2, Zero>>}
      [] system = ORTHORHOMBIC -> {<<i, Zero>> : i \in 0..2}
      [] system = TETRAGONAL -> {<<i, Zero>> : i \in 0..3}
      [] system = HEXAGONAL ->
            {<<0, NegLog3Over4>>} \cup {<<i, Zero>> : i \in 1..3}
      [] system = RHOMBOHEDRAL -> {<<3, Zero>>, <<4, Zero>>}
      [] system = CUBIC -> {<<i, Zero>> : i \in 0..4}

TableProjectionTied(system) ==
    IF system = RHOMBOHEDRAL THEN {<<1, 0>>, <<2, 0>>} ELSE {}

TableLatticeFixed(system) ==
    CASE system \in {TRICLINIC, RHOMBOHEDRAL} -> {}
      [] system = MONOCLINIC -> {<<3, Num(90)>>, <<5, Num(90)>>}
      [] system \in {ORTHORHOMBIC, TETRAGONAL, CUBIC} ->
            {<<i, Num(90)>> : i \in 3..5}
      [] system = HEXAGONAL ->
            {<<3, Num(90)>>, <<4, Num(90)>>, <<5, Num(120)>>}

TableLatticeTied(system) ==
    CASE system \in {TRICLINIC, MONOCLINIC, ORTHORHOMBIC} -> {}
      [] system \in {TETRAGONAL, HEXAGONAL} -> {<<1, 0>>}
      [] system = RHOMBOHEDRAL -> {<<1, 0>>, <<2, 0>>, <<4, 3>>, <<5, 3>>}
      [] system = CUBIC -> {<<1, 0>>, <<2, 0>>}

\* the entries of a 6-list of optional values that are not None
Entries(list) ==
    {<<i, At(list, i)[1]>> : i \in {j \in DimIndices : ~IsNone(At(list, j))}}

\* C5: for each of the 7 lattice systems the attributes set by
\* _setup_constraints are exactly the table of the specification, whatever
\* systems were active before.
C5_TableIsSpecTable ==
    lattice_system \in LATTICE_SYSTEMS =>
        /\ Len(ignored_dims) = 6
        /\ {i \in DimIndices : At(ignored_dims, i)} = TableIgnored(lattice_system)
        /\ Len(projection_fixed_values) = 6
        /\ Entries(projection_fixed_values) = TableProjectionFixed(lattice_system)
        /\ Len(projection_tied_values) = 6
        /\ Entries(projection_tied_values) = TableProjectionTied(lattice_system)
        /\ Len(lattice_params_fixed_values) = 6
        /\ Entries(lattice_params_fixed_values) = TableLatticeFixed(lattice_system)
        /\ Len(lattice_params_tied_values) = 6
        /\ Entries(lattice_params_tied_values) = TableLatticeTied(lattice_system)

\* the hexagonal table installed by set_lattice_system after a step taken
\* under another system
C5_Witness ==
    /\ lattice_system = HEXAGONAL
    /\ call.op = "set_lattice_system"
    /\ n_actions > 0
    /\ At(state, 0) = Zero

\* out resolves vector with precedence fixed > tied > pass-through
ResolvedInOrder(vector, fixed_values, tied_values, out) ==
    /\ Len(out) = 6
    /\ \A i \in DimIndices :
          At(out, i) =
              IF ~IsNone(At(fixed_values, i)) THEN At(fixed_values, i)[1]
              ELSE IF ~IsNone(At(tied_values, i))
                   THEN At(out, At(tied_values, i)[1])
              ELSE At(vector, i)

\* C6: apply_projection_constraints and apply_lattice_constraints give, at
\* each dimension, the fixed constant if one is set, otherwise the output
\* value at the tied index, otherwise the input value.
C6_FixedThenTiedThenInput ==
    /\ call.op = "apply_projection_constraints" =>
          ResolvedInOrder(call.arg, projection_fixed_values,
                          projection_tied_values, call.result)
    /\ call.op = "apply_lattice_constraints" =>
          ResolvedInOrder(call.arg, lattice_params_fixed_values,
                          lattice_params_tied_values, call.result)

\* the hexagonal projection constraints changed the argument
C6_Witness ==
    /\ call.op = "apply_projection_constraints"
    /\ lattice_system = HEXAGONAL
    /\ At(call.result, 0) = NegLog3Over4
    /\ At(call.arg, 0) = Num(2)

\* the six lattice parameters of a state2lattice result
Flat(lattice) == lattice[1] \o lattice[2]

\* C7: in the output of state2lattice every lattice parameter the active
\* table declares tied equals the output value of its tie target.
C7_TiedParametersEqual ==
    call.op = "state2lattice" =>
        \A i \in DimIndices :
            ~IsNone(At(lattice_params_tied_values, i)) =>
                At(Flat(call.result), i) =
                    At(Flat(call.result), At(lattice_params_tied_values, i)[1])

\* state2lattice under rhombohedral of a state whose b differs from its a
C7_Witness ==
    /\ call.op = "state2lattice"
    /\ lattice_system = RHOMBOHEDRAL
    /\ At(call.arg, 0) = Half
    /\ At(call.arg, 1) = Num(2)
    /\ At(call.arg, 4) = Num(-1)

\* C8: state2lattice outputs every lattice parameter the table fixes as that
\* constant; under cubic, alpha = beta = gamma = 90 and a = b = c.
C8_FixedParametersConstant ==
    call.op = "state2lattice" =>
        /\ \A i \in DimIndices :
              ~IsNone(At(lattice_params_fixed_values, i)) =>
                  At(Flat(call.result), i) = At(lattice_params_fixed_values, i)[1]
        /\ lattice_system = CUBIC =>
              /\ call.result[2] = << Num(90), Num(90), Num(90) >>
              /\ call.result[1][1] = call.result[1][2]
              /\ call.result[1][2] = call.result[1][3]

\* state2lattice under cubic of a state outside the constraints
C8_Witness ==
    /\ call.op = "state2lattice"
    /\ lattice_system = CUBIC
    /\ At(call.arg, 3) = Num(2)
    /\ At(call.arg, 1) = Num(-1)

\* C9: apply_projection_constraints and apply_lattice_constraints are
\* idempotent: applied to their own output they return it unchanged.
C9_Idempotent ==
    /\ call.op = "apply_projection_constraints" =>
          apply_projection_constraints(call.result) = call.result
    /\ call.op = "apply_lattice_constraints" =>
          apply_lattice_constraints(call.result) = call.result

\* the rhombohedral lattice constraints changed the argument
C9_Witness ==
    /\ call.op = "apply_lattice_constraints"
    /\ lattice_system = RHOMBOHEDRAL
    /\ call.result # call.arg

\* every component of the projection p lies within its [min, max]
WithinProjectionBounds(p) ==
    \A i \in DimIndices :
        /\ ~Lt(At(p, i), At(min_projection_values, i))
        /\ ~Lt(At(max_projection_values, i), At(p, i))

----------------------------------------------------------------------------
HalfState == [i \in Dims |-> Half]

MidpointCall ==
    /\ call.op = "_state2projection"
    /\ lattice_system = TRICLINIC
    /\ call.arg = HalfState

\* C11 as stated: under the triclinic system the state [0.5]*6 maps through
\* _state2projection to the projection vector [0, 0, 0, 0, 0, 2], which
\* apply_projection_constraints returns unchanged.
C11_MidpointProjectsToTwo ==
    MidpointCall =>
        /\ call.result = << Zero, Zero, Zero, Zero, Zero, Num(2) >>
        /\ apply_projection_constraints(call.result) = call.result

\* C11: under the triclinic system the state [0.5]*6 maps through
\* _state2projection to the projection vector [0, 0, 0, 0, 0, 2.75], the
\* midpoint of each range [min, max], which apply_projection_constraints
\* returns unchanged.
C11_MidpointProjectsToMidpoint ==
    MidpointCall =>
        /\ call.result = << Zero, Zero, Zero, Zero, Zero, Rat(11, 4) >>
        /\ apply_projection_constraints(call.result) = call.result

\* _state2projection has returned for [0.5]*6 under triclinic, and twice the
\* last coefficient is min + max = 5.5
C11_Witness ==
    /\ MidpointCall
    /\ Add(call.result[6], call.result[6]) =
           Add(min_projection_values[6], max_projection_values[6])

----------------------------------------------------------------------------
\* the string holds six floats once parentheses and spaces are stripped
WellFormed(readable) ==
    LET parts == split(Remove(Remove(Remove(readable, "("), ")"), " "), ",")
    IN  /\ Len(parts) = 6
        /\ \A i \in 1..6 : ~Raised(float(parts[i]))

\* C12: readable2state accepts a well-formed string "(a, b, c), (alpha, beta,
\* gamma)" and returns a state, and under cubic state2readable of the state
\* returned for "(4.0, 4.0, 4.0), (90.0, 90.0, 90.0)" is that string.
C12_ReadableRoundTrip ==
    (call.op = "readable2state" /\ WellFormed(call.arg.readable)) =>
        IF Raised(call.result) THEN FALSE
        ELSE (lattice_system = CUBIC /\ call.arg.readable = CubicReadable) =>
                 state2readable(call.result.value) = call.arg.readable

----------------------------------------------------------------------------
InvalidNames == SystemNames \ LATTICE_SYSTEMS

\* C13: constructing an environment of either class with a name that is not
\* one of the 7 lattice systems raises ValueError from _setup_constraints,
\* and so does every set_lattice_system call with such a name.
C13_InvalidNameRaisesValueError ==
    /\ \A name \in InvalidNames :
           /\ Raised(LatticeParametersSGCCG__init__(name))
           /\ LatticeParametersSGCCG__init__(name).error = "ValueError"
           /\ Raised(LatticeParameters__init__(name))
           /\ LatticeParameters__init__(name).error = "ValueError"
    /\ (call.op = "set_lattice_system" /\ call.arg \notin LATTICE_SYSTEMS) =>
           call.result = "ValueError"
    /\ (call.op = "set_lattice_system" /\ call.arg \in LATTICE_SYSTEMS) =>
           call.result = "None"

\* set_lattice_system has raised ValueError for an invalid name on an
\* environment that has already taken a step
C13_Witness ==
    /\ call.op = "set_lattice_system"
    /\ call.arg \in InvalidNames
    /\ call.result = "ValueError"
    /\ lattice_system = call.arg
    /\ n_actions > 0

----------------------------------------------------------------------------
\* the six parameters parameters2state works on
SixOf(a) ==
    IF IsNone(a.parameters) THEN a.lengths[1] \o a.angles[1]
    ELSE a.parameters[1]
\* what logm returns for the matrix J of these parameters
LogmOf(a) == a.logm[JMatrix(SixOf(a))]
Determined(a) ==
    ~IsNone(a.parameters) \/ (~IsNone(a.lengths) /\ ~IsNone(a.angles))

\* C14: LatticeParametersSGCCG.parameters2state raises ValueError, returns no
\* state and leaves the environment state as it was whenever the residual
\* logm reports exceeds 1e-9; otherwise it returns the state whose projection
\* holds the coefficients of logm(J) / 2 in the basis B1..B6, which is
\* _projection2state(_lattice2projection(params)).
C14_ResidualAboveThresholdRaises ==
    (call.op = "parameters2state" /\ Determined(call.arg)) =>
        /\ state = source
        /\ IF Lt(LogmThreshold, LogmOf(call.arg).error)
           THEN /\ Raised(call.result)
                /\ call.result.error = "ValueError"
           ELSE /\ ~Raised(call.result)
                /\ call.result.value = _projection2state(
                       _lattice2projection(SixOf(call.arg),
                                           call.arg.logm).value)
                /\ ProjectionMatrix(_state2projection(call.result.value)) =
                       [i \in 1..3 |-> [j \in 1..3 |->
                           Div(LogmOf(call.arg).s[i][j], Num(2))]]

\* parameters2state has raised for a residual of 1e-8 on parameters given
\* as one tuple
C14_Witness ==
    /\ call.op = "parameters2state"
    /\ ~IsNone(call.arg.parameters)
    /\ Lt(LogmThreshold, LogmOf(call.arg).error)
    /\ Raised(call.result)
    /\ call.result.message = "logm error larger than 1e-9"

----------------------------------------------------------------------------
\* the function the call was made to, applied to other arguments
SameFunction(parameters, lengths, angles) ==
    IF call.op = "parameters2state"
    THEN parameters2state(parameters, lengths, angles, call.arg.logm)
    ELSE LatticeParameters_parameters2state(attributes, parameters, lengths,
                                            angles)

\* C15: parameters2state of both classes returns, when parameters is not
\* None, what it returns for parameters alone, whatever lengths and angles
\* are; when parameters is None it returns what it returns for the tuple
\* lengths + angles, and raises ValueError("Cannot determine all six
\* parameters.") if either lengths or angles is None.
C15_ParametersTakePrecedence ==
    (call.op \in {"parameters2state", "LatticeParameters.parameters2state"}) =>
        IF ~IsNone(call.arg.parameters)
        THEN call.result = SameFunction(call.arg.parameters, None, None)
        ELSE IF IsNone(call.arg.lengths) \/ IsNone(call.arg.angles)
        THEN call.result = CannotDetermine
        ELSE call.result =
                 SameFunction(Some(call.arg.lengths[1] \o call.arg.angles[1]),
                              None, None)

\* the hexagonal LatticeParameters environment has returned a state for
\* parameters given together with lengths and angles, and the state encodes
\* the parameters, not the lengths
C15_Witness ==
    /\ call.op = "LatticeParameters.parameters2state"
    /\ lattice_system = HEXAGONAL
    /\ ~IsNone(call.arg.parameters)
    /\ ~IsNone(call.arg.lengths)
    /\ ~IsNone(call.arg.angles)
    /\ ~Raised(call.result)
    /\ call.result.value[3] = _length2statevalue(call.arg.parameters[1][3])
    /\ call.result.value[3] # _length2statevalue(call.arg.lengths[1][3])

----------------------------------------------------------------------------
\* C16: states2proxy maps a batch of n states to an output of shape [n, 6]
\* whose row i is the flattened state2lattice(states[i]), in float_type: the
\* order of the batch is kept and a row depends on its own state and the
\* active table only.
C16_RowsAreLatticesInOrder ==
    (call.op = "states2proxy") =>
        IF Raised(call.result) THEN FALSE
        ELSE /\ Len(call.result.value) = Len(call.arg.states)
             /\ \A i \in 1..Len(call.arg.states) :
                    /\ Len(call.result.value[i]) = 6
                    /\ call.result.value[i] =
                           ToFloatNested(
                               Flat(state2lattice(
                                   ToFloatNested(call.arg.states[i], 1))), 1)

----------------------------------------------------------------------------
\* the value an ignored dimension derives from: the state value of the
\* dimension of its index or, without an index, the state encoding of its
\* fixed angle
DerivedValue(st, idx) ==
    LET param == At(PARAMETER_NAMES, idx)
        param_idx == _get_index_of_param(attributes, param)
    IN  IF ~IsNone(param_idx) THEN At(st, param_idx[1])
        ELSE Div(Sub(attributes[param], min_angle), angle_range)

TenthsCommitted ==
    << Rat(1, 10), Rat(1, 10), Rat(3, 10), Rat(4, 10), Rat(4, 10), Rat(4, 10) >>

\* C17: in the LatticeParameters environment, after every step each ignored
\* state dimension holds its derived value; under tetragonal, the step from
\* source with increments (0.1, 0.2, 0.3, 0.4, 0.5, 0.6) commits
\* [0.1, 0.1, 0.3, 0.4, 0.4, 0.4].
C17_IgnoredDimsHoldDerivedValues ==
    /\ [](call.op = "_step" =>
             \A idx \in DimIndices :
                 At(ignored_dims, idx) => At(state, idx) = DerivedValue(state, idx))
    /\ [][(/\ state = source
           /\ lattice_system = TETRAGONAL
           /\ call'.op = "_step"
           /\ call'.arg = << TenthsAction, FALSE >>)
          => state' = TenthsCommitted]_vars

\* the tetragonal step of the example has been accepted as the first step
C17_Witness ==
    /\ call.op = "_step"
    /\ call.arg = << TenthsAction, FALSE >>
    /\ call.result = TRUE
    /\ lattice_system = TETRAGONAL
    /\ n_actions = 1
    /\ state = TenthsCommitted

\* C18: in the LatticeParameters environment, a step the cube rejects
\* returns valid=False and leaves the state equal to the state before it.
C18_RejectedStepKeepsState ==
    [][(call'.op = "_step" /\ ~call'.result) => UNCHANGED state]_vars

----------------------------------------------------------------------------
RECURSIVE Concatenated(_)
Concatenated(batches) ==
    IF batches = << >> THEN << >>
    ELSE Head(batches) \o Concatenated(Tail(batches))

----------------------------------------------------------------------------
FilesOf(a) == { AllFiles[i] : i \in a.present }
FinalFiles(a) == { f \in FilesOf(a) : Contains(f, FinalPattern) }
IterFiles(a) == { f \in FilesOf(a) : OccursAt(f, IterPrefix, 1) }
\* the iteration number written in a name iter_<number>.<suffix>
IterationNumber(f) ==
    LET points == { i \in 1..Len(f) : f[i] = "." }
        last == CHOOSE i \in points : \A j \in points : j <= i
    IN  float(SubSeq(f, Len(IterPrefix) + 1, last - 1))

----------------------------------------------------------------------------
\* C23: _projection2state and _state2projection are inverse to each other in
\* exact arithmetic: the state of the projection of a 6-vector is the
\* vector, and the projection of the state of a 6-vector is the vector.
C23_ProjectionAndStateAreInverse ==
    /\ (call.op = "_state2projection") =>
           _projection2state(call.result) = call.arg
    /\ (call.op = "_projection2state") =>
           _state2projection(call.result) = call.arg

\* the projection of a vector outside the unit cube has been mapped back
C23_Witness ==
    /\ call.op = "_state2projection"
    /\ call.arg = << Num(2), Half, Num(-1), Half, Num(2), Num(2) >>
    /\ call.result # call.arg
    /\ _projection2state(call.result) = call.arg

----------------------------------------------------------------------------
\* C24: the coefficients _lattice2projection reads from a matrix
\* S = k1 * B1 + ... + k6 * B6 are the coefficients (k1, ..., k6) the matrix
\* was formed from.
C24_RecoveryInvertsBasisExpansion ==
    (call.op = "recover_coefficients") => call.result = call.arg

\* recovered from a matrix with a diagonal of three distinct entries and
\* off-diagonal entries that are not all equal
C24_Witness ==
    /\ call.op = "recover_coefficients"
    /\ call.arg = << Num(2), Half, Num(-1), Half, Num(2), Num(-1) >>
    /\ ProjectionMatrix(call.arg)[1][1] # ProjectionMatrix(call.arg)[2][2]
    /\ ProjectionMatrix(call.arg)[2][2] # ProjectionMatrix(call.arg)[3][3]
    /\ ProjectionMatrix(call.arg)[1][1] # ProjectionMatrix(call.arg)[3][3]
    /\ call.result = call.arg

----------------------------------------------------------------------------
\* C25: in the table of the environment, in projection space and in
\* lattice-parameter space, every tied entry at dimension i names a target
\* j with 0 <= j < i: the left-to-right loop of apply_projection_constraints
\* and apply_lattice_constraints reads only elements already appended.
C25_TieTargetsPrecede ==
    /\ \A e \in Entries(projection_tied_values) : 0 <= e[2] /\ e[2] < e[1]
    /\ \A e \in Entries(lattice_params_tied_values) : 0 <= e[2] /\ e[2] < e[1]

\* the rhombohedral table, with ties in both spaces, installed by
\* set_lattice_system
C25_Witness ==
    /\ call.op = "set_lattice_system"
    /\ call.result = "None"
    /\ lattice_system = RHOMBOHEDRAL
    /\ <<2, 0>> \in Entries(projection_tied_values)
    /\ <<5, 3>> \in Entries(lattice_params_tied_values)

----------------------------------------------------------------------------
\* C26: in every reachable state of the environment, also after a
\* set_lattice_system that raised for an invalid name, the lattice_system
\* attribute holds one of the seven systems (a failed call does not change
\* it) and ignored_dims and the four constraint lists are the table of that
\* system.
C26_TableIsTableOfAttribute ==
    /\ lattice_system \in LATTICE_SYSTEMS
    /\ ~Raised(_setup_constraints(lattice_system))
    /\ LET t == _setup_constraints(lattice_system)
       IN  table = << t.ignored_dims, t.projection_tied_values,
                      t.projection_fixed_values,
                      t.lattice_params_tied_values,
                      t.lattice_params_fixed_values >>

----------------------------------------------------------------------------
\* C27: in the LatticeParameters environment, whatever set_lattice_system
\* calls came before, _unpack_lengths_angles reports for the state what an
\* environment constructed with the active lattice system reports for it:
\* an angle that is free in the active system is read from the state.
C27_ParametersDependOnActiveSystemOnly ==
    lattice_system \in LATTICE_SYSTEMS =>
        _unpack_lengths_angles(attributes, state) =
            _unpack_lengths_angles(
                LatticeParameters__init__(lattice_system).attributes, state)

----------------------------------------------------------------------------
\* the dimensions (from 1) with neither a fixed nor a tied projection value
Unconstrained ==
    { i \in Dims : /\ IsNone(projection_fixed_values[i])
                   /\ IsNone(projection_tied_values[i]) }

\* C28: whenever a step can be taken, for every candidate the cube can
\* return from the state, the re-projection of _step changes only the
\* dimensions with a fixed or a tied projection value: every other dimension
\* of the re-projected state is exactly the value of the candidate.
C28_ReprojectionKeepsUnconstrainedDims ==
    n_actions < MaxSteps =>
        \A action \in Actions, backward \in BOOLEAN :
            LET r == CubeStep(state, action, backward)
                reprojected == Reprojected(r.state)
            IN  \A i \in Unconstrained : reprojected[i] = r.state[i]

\* an accepted rhombohedral step: the free dimensions 0 and 5 hold values
\* that differ, the tied dimension 1 holds the value of dimension 0
C28_Witness ==
    /\ call.op = "_step"
    /\ call.result = TRUE
    /\ lattice_system = RHOMBOHEDRAL
    /\ Unconstrained = {1, 6}
    /\ state[1] = Half
    /\ state[6] = Zero
    /\ state[2] = Half

----------------------------------------------------------------------------
\* every component of the state lies in [0, 1]
InUnitCube(st) == \A i \in Dims : ~Lt(st[i], Zero) /\ ~Lt(One, st[i])

\* C29: the state committed by an accepted _step passes is_valid and has
\* all six components in [0, 1]; in the table of the environment every
\* fixed projection constant lies within the bounds of its dimension and
\* every tied projection dimension has the bounds of its target.
C29_AcceptedStepCommitsValidState ==
    /\ (call.op = "_step" /\ call.result = TRUE) =>
           is_valid(state) /\ InUnitCube(state)
    /\ \A e \in Entries(projection_fixed_values) :
           /\ ~Lt(e[2], At(min_projection_values, e[1]))
           /\ ~Lt(At(max_projection_values, e[1]), e[2])
    /\ \A e \in Entries(projection_tied_values) :
           /\ At(min_projection_values, e[1]) = At(min_projection_values, e[2])
           /\ At(max_projection_values, e[1]) = At(max_projection_values, e[2])

\* an accepted hexagonal step: dimension 0 holds the state value of the
\* constant -log(3)/4, which is not the midpoint
C29_Witness ==
    /\ call.op = "_step"
    /\ call.result = TRUE
    /\ lattice_system = HEXAGONAL
    /\ state[1] # Half
    /\ state[2] = Half
    /\ state[6] = Half
    /\ is_valid(state)

----------------------------------------------------------------------------
\* C30: in the table of the environment, dimension i is marked in
\* ignored_dims if and only if projection dimension i has a fixed value or
\* a tied index.
C30_IgnoredIffFixedOrTied ==
    \A i \in Dims :
        ignored_dims[i] <=>
            (\/ ~IsNone(projection_fixed_values[i])
             \/ ~IsNone(projection_tied_values[i]))

\* the rhombohedral table installed by set_lattice_system: dimensions 1 and
\* 2 are ignored because tied, 3 and 4 because fixed, 0 and 5 are exposed
C30_Witness ==
    /\ call.op = "set_lattice_system"
    /\ lattice_system = RHOMBOHEDRAL
    /\ { i \in Dims : ignored_dims[i] } = {2, 3, 4, 5}
    /\ ~IsNone(projection_tied_values[2])
    /\ ~IsNone(projection_fixed_values[4])
    /\ Unconstrained = {1, 6}

====
